---- MODULE Spec2Model ----
(***************************************************************************)
(* Model of edk2toolext/invocables/edk2_coverage.py: the Edk2Coverage      *)
(* invocable and the CoverageSettingsManager it queries.                   *)
(*                                                                         *)
(* Python strings are modelled as sequences of one-character strings, so   *)
(* that concatenation, the ';' separators of the filter expression and the *)
(* ' ' separators of the argument string are all visible to the checks.    *)
(***************************************************************************)
EXTENDS Integers, Sequences, FiniteSets, TLC

(***************************************************************************)
(* Bounds of the model.                                                    *)
(***************************************************************************)
\* number of patterns the platform's two lists hold together
MaxPatterns == 2
\* number of Go() calls made on the one instance
MaxCalls == 2

(***************************************************************************)
(* String literals of the source.                                          *)
(***************************************************************************)
AutoGenPattern ==
    <<"*", "A", "u", "t", "o", "G", "e", "n", ".", "c">>
UnitTestPattern ==
    <<"*", "U", "n", "i", "t", "T", "e", "s", "t", "*">>
\* excludes = ["*AutoGen.c", "*UnitTest*"]
Baseline == <<AutoGenPattern, UnitTestPattern>>

DefaultCoverageFiles ==
    <<"B", "u", "i", "l", "d", "/", "*", "*", "/", "c", "o", "v", "e", "r", "a", "g", "e", ".", "x", "m", "l">>
DefaultReportType ==
    <<"C", "o", "b", "e", "r", "t", "u", "r", "a">>
DefaultOutputDir ==
    <<"B", "u", "i", "l", "d", "/", "C", "o", "v", "e", "r", "a", "g", "e">>

ReportsFlag ==
    <<" ", "-", "r", "e", "p", "o", "r", "t", "s", ":">>
TargetDirFlag ==
    <<" ", "-", "t", "a", "r", "g", "e", "t", "d", "i", "r", ":">>
ReportTypesFlag ==
    <<" ", "-", "r", "e", "p", "o", "r", "t", "t", "y", "p", "e", "s", ":">>
FileFiltersFlag ==
    <<" ", "-", "f", "i", "l", "e", "f", "i", "l", "t", "e", "r", "s", ":">>

\* RunCmd("reportgenerator", args)
ToolName == "reportgenerator"

\* Python's None, and the value of a name that is not bound yet; both are
\* different from every string, the empty string included.
None == <<"<None>">>
Unbound == <<"<unbound>">>

\* return -1
MissingGlobStatus == -1

(***************************************************************************)
(* Inputs: what the command line and the platform settings can supply.     *)
(***************************************************************************)
FooPattern == <<"F", "o", "o", ".", "c">>
BarPattern == <<"B", "a", "r", ".", "c">>
OtherCoverageFiles == <<"c", "o", "v", ".", "x", "m", "l">>
OtherReportType == <<"H", "t", "m", "l">>
OtherOutputDir == <<"M", "y", " ", "D", "i", "r">>

\* a pattern that holds the separator of the filter expression
SemiPattern == <<"a", ";", "b">>

\* glob patterns a platform may return; one of them repeats the baseline
Patterns == {FooPattern, BarPattern, UnitTestPattern, SemiPattern}

RECURSIVE ListsUpTo(_)
ListsUpTo(n) ==
    IF n = 0 THEN {<<>>}
    ELSE LET shorter == ListsUpTo(n - 1)
         IN  shorter \cup {Append(l, p) : l \in {s \in shorter : Len(s) = n - 1}, p \in Patterns}

PatternLists == ListsUpTo(MaxPatterns)

\* the argparse namespaces handed to RetrieveCommandLineOptions: the three
\* defaults, the defaults without a glob, and two command lines that override
Namespace(cf, rt, od) == [coverage_files |-> cf, report_type |-> rt, output_dir |-> od]
ParsedArgs ==
    {Namespace(DefaultCoverageFiles, DefaultReportType, DefaultOutputDir),
     Namespace(None, OtherReportType, DefaultOutputDir),
     Namespace(DefaultCoverageFiles, OtherReportType, DefaultOutputDir),
     Namespace(OtherCoverageFiles, OtherReportType, OtherOutputDir)}

\* exit codes of the external tool (a negative code is a signal's)
ExitCodes == {-1, 0, 259}

(***************************************************************************)
(* State.                                                                  *)
(***************************************************************************)
VARIABLES
    configured,    \* RetrieveCommandLineOptions has run at least once
    self,          \* the instance's coverage_files, report_type, output_dir
    runSelf,       \* the attributes as the current (or last) call of Go() found them
    platInc,       \* the list object PlatformSettings.GetCoverageInclusionList() returns
    platExc,       \* the list object PlatformSettings.GetCoverageExclusionList() returns
    pc,            \* position of Go(): "idle" before the first call, "done" after a return
    includes,      \* Go's local
    excludes,      \* Go's local
    file_filters,  \* Go's local
    args,          \* Go's local
    rc,            \* Go's local: <<>> until RunCmd has returned, then <<code>>
    result,        \* Go's return value: <<>> until it returns, then <<value>>
    raised,        \* Go() ended with AttributeError instead of returning
    tool,          \* the external process of this call: "idle", "running", "exited"
    events,        \* what this call of Go() has done so far, in order
    calls,         \* number of Go() calls started
    callLog        \* every RunCmd invocation so far: command, arguments, filter

vars == <<configured, self, runSelf, platInc, platExc, pc, includes, excludes,
          file_filters, args, rc, result, raised, tool, events, calls, callLog>>

(***************************************************************************)
(* Pure parts of Go().                                                     *)
(***************************************************************************)
\* faulty variant: the None check never fires
GlobMissingNever(cf) == FALSE
\* if self.coverage_files is None
GlobMissing(cf) == cf = None

\* faulty variants: the platform's list is the one extended; = written for +=
ListIAddAliased(lhs, rhs) == [lhs |-> lhs \o rhs, rhs |-> lhs \o rhs]
ListIAddAssign(lhs, rhs) == [lhs |-> rhs, rhs |-> rhs]
\* lhs += rhs on lists: lhs is extended in place, rhs is only read
ListIAdd(lhs, rhs) == [lhs |-> lhs \o rhs, rhs |-> rhs]

\* faulty variant: the separator is added without the emptiness test
AppendFilterAlwaysSep(ff, prefix, file_path) ==
    (ff \o <<";">>) \o <<prefix>> \o file_path
\* one pass of the body of either for loop
AppendFilter(ff, prefix, file_path) ==
    (IF ff # <<>> THEN ff \o <<";">> ELSE ff) \o <<prefix>> \o file_path

RECURSIVE FilterLoop(_, _, _)
FilterLoop(ff, prefix, paths) ==
    IF paths = <<>> THEN ff
    ELSE FilterLoop(AppendFilter(ff, prefix, Head(paths)), prefix, Tail(paths))

\* faulty variant: report type and output directory exchanged
BuildArgsSwapped(cf, od, rt, ff) ==
    ReportsFlag \o cf \o TargetDirFlag \o rt \o ReportTypesFlag \o od
        \o FileFiltersFlag \o ff
\* args = " -reports:" + ...; args += " -targetdir:" + ...; ...
BuildArgs(cf, od, rt, ff) ==
    ReportsFlag \o cf \o TargetDirFlag \o od \o ReportTypesFlag \o rt
        \o FileFiltersFlag \o ff

\* faulty variant: the code is cut to a byte
ReturnCodeByte(code) == IF code = 0 THEN 0 ELSE code % 256
\* if rc == 0: ... return 0   else: ... return rc
ReturnCode(code) == IF code = 0 THEN 0 ELSE code

\* faulty variant: a missing glob is replaced by the default
GoSelfDefaulted(s) ==
    IF s.coverage_files = None
    THEN [s EXCEPT !.coverage_files = DefaultCoverageFiles] ELSE s
\* Go() reads the three attributes of self and assigns none
GoSelf(s) == s

\* faulty variants: the None check made before the platform is queried; the
\* tool run again after a non-zero exit code
GoNextCheckFirst(at, cf, code) ==
    CASE at = "init"            -> "check_glob"
      [] at = "check_glob"      -> IF cf = Unbound \/ GlobMissing(cf)
                                   THEN "done" ELSE "get_inclusion"
      [] at = "get_inclusion"   -> "get_exclusion"
      [] at = "get_exclusion"   -> "filter_excludes"
      [] at = "filter_excludes" -> "filter_includes"
      [] at = "filter_includes" -> "build_args"
      [] at = "build_args"      -> "run_cmd"
      [] at = "run_cmd"         -> "wait_cmd"
      [] at = "wait_cmd"        -> "check_rc"
      [] at = "check_rc"        -> "done"
GoNextRetry(at, cf, code) ==
    CASE at = "init"            -> "get_inclusion"
      [] at = "get_inclusion"   -> "get_exclusion"
      [] at = "get_exclusion"   -> "check_glob"
      [] at = "check_glob"      -> IF cf = Unbound \/ GlobMissing(cf)
                                   THEN "done" ELSE "filter_excludes"
      [] at = "filter_excludes" -> "filter_includes"
      [] at = "filter_includes" -> "build_args"
      [] at = "build_args"      -> "run_cmd"
      [] at = "run_cmd"         -> "wait_cmd"
      [] at = "wait_cmd"        -> "check_rc"
      [] at = "check_rc"        -> IF code = 0 THEN "done" ELSE "run_cmd"
\* the order of Go()'s statements
GoNext(at, cf, code) ==
    CASE at = "init"            -> "get_inclusion"
      [] at = "get_inclusion"   -> "get_exclusion"
      [] at = "get_exclusion"   -> "check_glob"
      [] at = "check_glob"      -> IF cf = Unbound \/ GlobMissing(cf)
                                   THEN "done" ELSE "filter_excludes"
      [] at = "filter_excludes" -> "filter_includes"
      [] at = "filter_includes" -> "build_args"
      [] at = "build_args"      -> "run_cmd"
      [] at = "run_cmd"         -> "wait_cmd"
      [] at = "wait_cmd"        -> "check_rc"
      [] at = "check_rc"        -> "done"

(***************************************************************************)
(* Initial state: the instance is constructed, its options are not read    *)
(* yet, and the platform settings object holds its two lists.              *)
(***************************************************************************)
Init ==
    /\ configured = FALSE
    /\ self = [coverage_files |-> Unbound, report_type |-> Unbound, output_dir |-> Unbound]
    /\ runSelf = self
    /\ platInc \in PatternLists
    /\ platExc \in PatternLists
    /\ Len(platInc) + Len(platExc) <= MaxPatterns
    /\ pc = "idle"
    /\ includes = <<>>
    /\ excludes = <<>>
    /\ file_filters = Unbound
    /\ args = Unbound
    /\ rc = <<>>
    /\ result = <<>>
    /\ raised = FALSE
    /\ tool = "idle"
    /\ events = <<>>
    /\ calls = 0
    /\ callLog = <<>>

(***************************************************************************)
(* Actions.                                                                *)
(***************************************************************************)
\* Edk2Coverage.RetrieveCommandLineOptions(args): callable whenever Go() is
\* not running (the program is single-threaded), any number of times
RetrieveCommandLineOptions ==
    /\ pc \in {"idle", "done"}
    /\ \E a \in ParsedArgs :
          self' = [coverage_files |-> a.coverage_files,
                   report_type    |-> a.report_type,
                   output_dir     |-> a.output_dir]
    /\ configured' = TRUE
    /\ UNCHANGED <<runSelf, platInc, platExc, pc, includes, excludes, file_filters,
                   args, rc, result, raised, tool, events, calls, callLog>>

\* Go() is entered: includes = []; excludes = ["*AutoGen.c", "*UnitTest*"]
GoEnter ==
    /\ pc \in {"idle", "done"}
    /\ calls < MaxCalls
    /\ calls' = calls + 1
    /\ includes' = <<>>
    /\ excludes' = Baseline
    /\ file_filters' = Unbound
    /\ args' = Unbound
    /\ rc' = <<>>
    /\ result' = <<>>
    /\ raised' = FALSE
    /\ tool' = "idle"
    /\ events' = <<>>
    /\ runSelf' = self
    /\ self' = GoSelf(self)
    /\ pc' = GoNext("init", self.coverage_files, 0)
    /\ UNCHANGED <<configured, platInc, platExc, callLog>>

\* includes += self.PlatformSettings.GetCoverageInclusionList()
GoGetInclusion ==
    /\ pc = "get_inclusion"
    /\ LET r == ListIAdd(includes, platInc)
       IN  /\ includes' = r.lhs
           /\ platInc' = r.rhs
    /\ events' = Append(events, "GetCoverageInclusionList")
    /\ self' = GoSelf(self)
    /\ pc' = GoNext("get_inclusion", self.coverage_files, 0)
    /\ UNCHANGED <<raised, runSelf, configured, platExc, excludes, file_filters, args,
                   rc, result, tool, calls, callLog>>

\* excludes += self.PlatformSettings.GetCoverageExclusionList()
GoGetExclusion ==
    /\ pc = "get_exclusion"
    /\ LET r == ListIAdd(excludes, platExc)
       IN  /\ excludes' = r.lhs
           /\ platExc' = r.rhs
    /\ events' = Append(events, "GetCoverageExclusionList")
    /\ self' = GoSelf(self)
    /\ pc' = GoNext("get_exclusion", self.coverage_files, 0)
    /\ UNCHANGED <<raised, runSelf, configured, platInc, includes, file_filters, args,
                   rc, result, tool, calls, callLog>>

\* if self.coverage_files is None: logging.error(...); return -1
\* (reading the attribute raises AttributeError when it was never assigned)
GoCheckGlob ==
    /\ pc = "check_glob"
    /\ events' = Append(events, "CheckGlob")
    /\ raised' = (self.coverage_files = Unbound)
    /\ result' = IF self.coverage_files # Unbound /\ GlobMissing(self.coverage_files)
                 THEN <<MissingGlobStatus>> ELSE result
    /\ self' = GoSelf(self)
    /\ pc' = GoNext("check_glob", self.coverage_files, 0)
    /\ UNCHANGED <<runSelf, configured, platInc, platExc, includes, excludes,
                   file_filters, args, rc, tool, calls, callLog>>

\* file_filters = ""; for file_path in excludes: ...
GoFilterExcludes ==
    /\ pc = "filter_excludes"
    /\ file_filters' = FilterLoop(<<>>, "-", excludes)
    /\ self' = GoSelf(self)
    /\ pc' = GoNext("filter_excludes", self.coverage_files, 0)
    /\ UNCHANGED <<raised, runSelf, configured, platInc, platExc, includes, excludes,
                   args, rc, result, tool, events, calls, callLog>>

\* for file_path in includes: ...
GoFilterIncludes ==
    /\ pc = "filter_includes"
    /\ file_filters' = FilterLoop(file_filters, "+", includes)
    /\ self' = GoSelf(self)
    /\ pc' = GoNext("filter_includes", self.coverage_files, 0)
    /\ UNCHANGED <<raised, runSelf, configured, platInc, platExc, includes, excludes,
                   args, rc, result, tool, events, calls, callLog>>

\* args = " -reports:" + self.coverage_files ... args += " -filefilters:" + file_filters
GoBuildArgs ==
    /\ pc = "build_args"
    /\ args' = BuildArgs(self.coverage_files, self.output_dir, self.report_type, file_filters)
    /\ self' = GoSelf(self)
    /\ pc' = GoNext("build_args", self.coverage_files, 0)
    /\ UNCHANGED <<raised, runSelf, configured, platInc, platExc, includes, excludes,
                   file_filters, rc, result, tool, events, calls, callLog>>

\* RunCmd("reportgenerator", args): the process is started
GoRunCmd ==
    /\ pc = "run_cmd"
    /\ tool' = "running"
    /\ events' = Append(events, "RunCmd")
    /\ callLog' = Append(callLog, [cmd |-> ToolName, args |-> args,
                                   filters |-> file_filters, self |-> self])
    /\ self' = GoSelf(self)
    /\ pc' = GoNext("run_cmd", self.coverage_files, 0)
    /\ UNCHANGED <<raised, runSelf, configured, platInc, platExc, includes, excludes,
                   file_filters, args, rc, result, calls>>

\* rc = RunCmd(...): Go() blocks until the process has exited with some code
GoWaitCmd ==
    /\ pc = "wait_cmd"
    /\ tool = "running"
    /\ \E code \in ExitCodes : rc' = <<code>>
    /\ tool' = "exited"
    /\ self' = GoSelf(self)
    /\ pc' = GoNext("wait_cmd", self.coverage_files, 0)
    /\ UNCHANGED <<raised, runSelf, configured, platInc, platExc, includes, excludes,
                   file_filters, args, result, events, calls, callLog>>

\* if rc == 0: logging.debug(...) else: logging.critical(...); return rc
\* return 0
GoCheckRc ==
    /\ pc = "check_rc"
    /\ LET next == GoNext("check_rc", self.coverage_files, rc[1])
       IN  /\ pc' = next
           /\ result' = IF next = "done" THEN <<ReturnCode(rc[1])>> ELSE result
    /\ events' = Append(events, "CheckRc")
    /\ self' = GoSelf(self)
    /\ UNCHANGED <<raised, runSelf, configured, platInc, platExc, includes, excludes,
                   file_filters, args, rc, tool, calls, callLog>>

Next ==
    \/ RetrieveCommandLineOptions
    \/ GoEnter
    \/ GoGetInclusion
    \/ GoGetExclusion
    \/ GoCheckGlob
    \/ GoFilterExcludes
    \/ GoFilterIncludes
    \/ GoBuildArgs
    \/ GoRunCmd
    \/ GoWaitCmd
    \/ GoCheckRc

Spec == Init /\ [][Next]_vars

(***************************************************************************)
(* Helpers of the properties.                                              *)
(***************************************************************************)
Range(s) == {s[i] : i \in 1..Len(s)}

Count(s, e) == Cardinality({i \in 1..Len(s) : s[i] = e})

\* index of the first e in s, 0 when there is none
Pos(s, e) ==
    IF \E i \in 1..Len(s) : s[i] = e
    THEN CHOOSE i \in 1..Len(s) : s[i] = e /\ \A j \in 1..(i - 1) : s[j] # e
    ELSE 0

Contains(s, c) == \E i \in 1..Len(s) : s[i] = c

IsPrefix(p, s) == Len(p) <= Len(s) /\ SubSeq(s, 1, Len(p)) = p

\* the pieces of s between the occurrences of d, as str.split(d) gives them
SplitOn(s, d) ==
    LET seps == {i \in 1..Len(s) : s[i] = d}
        n == Cardinality(seps)
        SepAt(k) ==
            IF k = 0 THEN 0
            ELSE IF k = n + 1 THEN Len(s) + 1
            ELSE CHOOSE i \in seps : Cardinality({j \in seps : j < i}) = k - 1
    IN  [k \in 1..(n + 1) |-> SubSeq(s, SepAt(k - 1) + 1, SepAt(k) - 1)]

\* the tokens with exactly one d between neighbours
RECURSIVE JoinWith(_, _)
JoinWith(tokens, d) ==
    IF tokens = <<>> THEN <<>>
    ELSE IF Len(tokens) = 1 THEN tokens[1]
    ELSE tokens[1] \o <<d>> \o JoinWith(Tail(tokens), d)

Prefixed(prefix, list) == [i \in 1..Len(list) |-> <<prefix>> \o list[i]]

\* the filter expression's tokens as the specification states them
ExpectedTokens ==
    Prefixed("-", <<AutoGenPattern, UnitTestPattern>> \o platExc) \o Prefixed("+", platInc)

\* no pattern of the platform holds the ';' that separates the tokens
SemiFree == \A p \in Range(platExc) \cup Range(platInc) : ~Contains(p, ";")

\* no value that goes into the argument string holds a space
SpaceFree ==
    /\ ~Contains(runSelf.coverage_files, " ")
    /\ ~Contains(runSelf.output_dir, " ")
    /\ ~Contains(runSelf.report_type, " ")
    /\ \A p \in Range(platExc) \cup Range(platInc) : ~Contains(p, " ")

\* the coverage-file glob this call of Go() found: a string, None, or nothing
GlobSet == runSelf.coverage_files \notin {None, Unbound}
GlobNone == runSelf.coverage_files = None

\* both for loops of this call have run
FiltersBuilt ==
    /\ pc \in {"build_args", "run_cmd", "wait_cmd", "check_rc", "done"}
    /\ file_filters # Unbound

\* the argument string of this call has been built
ArgsBuilt ==
    /\ pc \in {"run_cmd", "wait_cmd", "check_rc", "done"}
    /\ args # Unbound

\* patterns that are '-' tokens, and patterns that are '+' tokens, of the expression
MinusPatterns ==
    {Tail(t) : t \in {u \in Range(SplitOn(file_filters, ";")) : u # <<>> /\ Head(u) = "-"}}
PlusPatterns ==
    {Tail(t) : t \in {u \in Range(SplitOn(file_filters, ";")) : u # <<>> /\ Head(u) = "+"}}

ExpectedBaselineFilter ==
    <<"-", "*", "A", "u", "t", "o", "G", "e", "n", ".", "c", ";", "-", "*", "U", "n", "i", "t", "T", "e", "s", "t", "*">>
ExampleFilter ==
    <<"-", "*", "A", "u", "t", "o", "G", "e", "n", ".", "c", ";", "-", "*", "U", "n", "i", "t", "T", "e", "s", "t", "*", ";", "-", "B", "a", "r", ".", "c", ";", "+", "F", "o", "o", ".", "c">>

(***************************************************************************)
(* Properties.                                                             *)
(***************************************************************************)
\* C1: when coverage_files is None, Go() returns -1 and reportgenerator is
\* never invoked in that run, whatever the platform lists, the report type
\* and the output directory are.
C1_MissingGlobFails ==
    /\ (pc # "idle" /\ GlobNone) =>
          /\ Count(events, "RunCmd") = 0
          /\ tool = "idle"
          /\ ~raised
          /\ pc = "done" => result = <<-1>>
    /\ \A i \in 1..Len(callLog) : callLog[i].self.coverage_files # None
C1_Witness ==
    /\ pc = "done"
    /\ GlobNone
    /\ result = <<-1>>
    /\ platExc # <<>>
    /\ runSelf.report_type = OtherReportType

\* C2: when coverage_files is set, Go() returns the exit code of the tool
\* unchanged: 0 exactly when the tool returned 0, and N for every N # 0.
C2_ReturnsExitCode ==
    (pc = "done" /\ GlobSet) =>
        /\ ~raised
        /\ rc # <<>>
        /\ result = rc
        /\ (result = <<0>>) <=> (rc = <<0>>)
C2_Witness ==
    /\ pc = "done"
    /\ GlobSet
    /\ rc = <<259>>
    /\ result = <<259>>

\* C3: the filter expression is '-' + p for the baseline and then each
\* exclusion pattern in order, then '+' + q for each inclusion pattern in
\* order, joined by exactly one ';' with none leading and none trailing;
\* every '-' token precedes every '+' token and there are
\* 2 + len(E) + len(I) tokens.
C3_FilterExpression ==
    FiltersBuilt =>
        /\ file_filters = JoinWith(ExpectedTokens, ";")
        /\ Len(ExpectedTokens) = 2 + Len(platExc) + Len(platInc)
        /\ Head(file_filters) # ";"
        /\ (platInc = <<FooPattern>> /\ platExc = <<BarPattern>>) => file_filters = ExampleFilter
        /\ (SemiFree /\ pc = "build_args") =>
              LET toks == SplitOn(file_filters, ";")
              IN  /\ toks = ExpectedTokens
                  /\ Len(toks) = 2 + Len(platExc) + Len(platInc)
                  /\ file_filters[Len(file_filters)] # ";"
                  /\ \A i \in 1..Len(toks) : Head(toks[i]) \in {"-", "+"}
                  /\ \A i, j \in 1..Len(toks) :
                        (Head(toks[i]) = "-" /\ Head(toks[j]) = "+") => i < j
C3_Witness ==
    /\ FiltersBuilt
    /\ pc = "build_args"
    /\ platExc = <<BarPattern>>
    /\ platInc = <<FooPattern>>
    /\ file_filters = ExampleFilter

\* C4: the filter expression always begins with -*AutoGen.c;-*UnitTest*,
\* also when the platform's lists are empty or repeat the baseline, and it
\* is exactly that when both platform lists are empty.
C4_BaselineFirst ==
    FiltersBuilt =>
        /\ IsPrefix(ExpectedBaselineFilter, file_filters)
        /\ (platInc = <<>> /\ platExc = <<>>) => file_filters = ExpectedBaselineFilter
C4_Witness ==
    /\ FiltersBuilt
    /\ platInc = <<>>
    /\ platExc = <<>>
    /\ file_filters = ExpectedBaselineFilter

\* C5: the argument string passed to reportgenerator is exactly
\* ' -reports:' + glob + ' -targetdir:' + output directory +
\* ' -reporttypes:' + report type + ' -filefilters:' + filter expression;
\* when no value holds a space, splitting it at the spaces gives the four
\* flags once each in that order.
C5_ArgumentString ==
    ArgsBuilt =>
        /\ args = <<" ", "-", "r", "e", "p", "o", "r", "t", "s", ":">> \o runSelf.coverage_files
                  \o <<" ", "-", "t", "a", "r", "g", "e", "t", "d", "i", "r", ":">> \o runSelf.output_dir
                  \o <<" ", "-", "r", "e", "p", "o", "r", "t", "t", "y", "p", "e", "s", ":">> \o runSelf.report_type
                  \o <<" ", "-", "f", "i", "l", "e", "f", "i", "l", "t", "e", "r", "s", ":">> \o file_filters
        /\ pc \in {"wait_cmd", "check_rc", "done"} =>
              /\ callLog[Len(callLog)].cmd = "reportgenerator"
              /\ callLog[Len(callLog)].args = args
              /\ callLog[Len(callLog)].self = runSelf
        /\ (SpaceFree /\ pc = "run_cmd") =>
              SplitOn(args, " ") =
                  << <<>>,
                     <<"-", "r", "e", "p", "o", "r", "t", "s", ":">> \o runSelf.coverage_files,
                     <<"-", "t", "a", "r", "g", "e", "t", "d", "i", "r", ":">> \o runSelf.output_dir,
                     <<"-", "r", "e", "p", "o", "r", "t", "t", "y", "p", "e", "s", ":">> \o runSelf.report_type,
                     <<"-", "f", "i", "l", "e", "f", "i", "l", "t", "e", "r", "s", ":">> \o file_filters >>
C5_Witness ==
    /\ ArgsBuilt
    /\ pc = "run_cmd"
    /\ SpaceFree
    /\ runSelf.report_type = OtherReportType
    /\ platInc # <<>>

\* C6: a run of Go() invokes the tool at most once: exactly once when
\* coverage_files is set, not at all when it is None; a non-zero exit code
\* starts no second invocation, and Go() returns only once the invocation
\* has completed.
C6_SingleInvocation ==
    /\ Count(events, "RunCmd") <= 1
    /\ Len(callLog) <= calls
    /\ pc = "done" =>
          /\ Count(events, "RunCmd") = (IF GlobSet THEN 1 ELSE 0)
          /\ tool # "running"
          /\ Count(events, "RunCmd") = 1 => (tool = "exited" /\ rc # <<>>)
C6_Witness ==
    /\ pc = "done"
    /\ rc = <<259>>
    /\ result = <<259>>
    /\ Count(events, "RunCmd") = 1
    /\ tool = "exited"

\* C7: coverage_files, report_type and output_dir are assigned only by
\* RetrieveCommandLineOptions, between calls of Go(); no step of Go() changes
\* any of them, on the missing-glob path, on tool success or on tool failure,
\* so a call ends with the attributes it began with.
C7_ConfigWriteOnce ==
    [][/\ (pc' # pc) => (self' = self)
       /\ (pc # "done" /\ pc' = "done") => (self' = runSelf')
       /\ (self' # self) =>
             /\ pc \in {"idle", "done"}
             /\ pc' = pc
             /\ configured'
             /\ calls' = calls
             /\ events' = events
             /\ callLog' = callLog
             /\ runSelf' = runSelf]_vars
C7_Witness ==
    /\ pc = "done"
    /\ calls = 2
    /\ rc = <<-1>>
    /\ self = runSelf
    /\ self.output_dir = OtherOutputDir
    /\ Len(callLog) = 2
    /\ callLog[1].self # callLog[2].self

\* C8 as stated: the exclusion list and the inclusion list used by Go() are
\* disjoint, so no pattern is both a '-' token and a '+' token.
C8_ListsDisjoint ==
    FiltersBuilt =>
        /\ Range(excludes) \cap Range(includes) = {}
        /\ (SemiFree /\ pc = "build_args") => MinusPatterns \cap PlusPatterns = {}

\* C8 amended: Go() concatenates the lists as given and removes nothing: the
\* patterns that are both '-' and '+' tokens are exactly the platform's
\* inclusion patterns that are also baseline patterns or platform exclusion
\* patterns, so the two lists are disjoint only when the platform's are.
C8_OverlapIsThePlatforms ==
    FiltersBuilt =>
        LET common == ({AutoGenPattern, UnitTestPattern} \cup Range(platExc)) \cap Range(platInc)
        IN  /\ Range(excludes) \cap Range(includes) = common
            /\ (SemiFree /\ pc = "build_args") => MinusPatterns \cap PlusPatterns = common
C8_Witness ==
    /\ FiltersBuilt
    /\ pc = "build_args"
    /\ SemiFree
    /\ platExc = <<>>
    /\ platInc = <<UnitTestPattern>>
    /\ MinusPatterns \cap PlusPatterns = {UnitTestPattern}

\* C9: Go() queries the platform for the inclusion and the exclusion list
\* before it checks coverage_files, and invokes the tool only after both
\* queries and the check; the platform is queried also in a run that fails
\* for the missing glob.
C9_StepOrder ==
    LET inc == Pos(events, "GetCoverageInclusionList")
        exc == Pos(events, "GetCoverageExclusionList")
        chk == Pos(events, "CheckGlob")
        run == Pos(events, "RunCmd")
    IN  /\ chk > 0 => (inc > 0 /\ exc > 0 /\ inc < chk /\ exc < chk)
        /\ run > 0 => (chk > 0 /\ chk < run)
        /\ pc = "done" => (inc > 0 /\ exc > 0 /\ chk > 0)
        /\ (pc = "done" /\ GlobNone) =>
              (Len(events) = 3 /\ chk = 3 /\ result = <<-1>>)
C9_Witness ==
    /\ pc = "done"
    /\ GlobNone
    /\ Pos(events, "GetCoverageInclusionList") > 0
    /\ Pos(events, "GetCoverageExclusionList") > 0
    /\ Pos(events, "RunCmd") = 0

\* C10: Go() builds its lists afresh on each call and never modifies the
\* platform's lists: over any number of calls the platform's lists stay as
\* they are, the baseline is not accumulated, every call passes the same
\* filter expression as the first, and calls made with the same three
\* attributes pass the same argument string.
C10_CallsAgree ==
    /\ \A i \in 1..Len(callLog) : callLog[i].filters = callLog[1].filters
    /\ \A i, j \in 1..Len(callLog) :
          callLog[i].self = callLog[j].self => callLog[i] = callLog[j]
    /\ pc \in {"check_glob", "filter_excludes", "filter_includes", "build_args",
               "run_cmd", "wait_cmd", "check_rc", "done"} =>
          (Len(excludes) = 2 + Len(platExc) /\ Len(includes) = Len(platInc))
    /\ (FiltersBuilt /\ callLog # <<>>) => file_filters = callLog[1].filters
    /\ ArgsBuilt =>
          \A i \in 1..Len(callLog) : callLog[i].self = runSelf => callLog[i].args = args
C10_FreshPerCall ==
    /\ [][platInc' = platInc /\ platExc' = platExc]_vars
    /\ []C10_CallsAgree
C10_Witness ==
    /\ pc = "done"
    /\ calls = 2
    /\ Len(callLog) = 2
    /\ callLog[2] = callLog[1]
    /\ self = runSelf
    /\ platExc # <<>>
    /\ platInc # <<>>

====
